---- MODULE Spec2Model ----
(***************************************************************************)
(* A model of expense_tracker.py: the Streamlit script that signs a user   *)
(* in, merges an uploaded bank export with the stored transactions,        *)
(* partitions them into salary-anchored "personal months", aggregates      *)
(* them, and appends the upload to the database after a typed confirmation.*)
(*                                                                         *)
(* One action is one run of the script, triggered by one user interaction. *)
(* Data frames are sequences of records; text is a sequence of characters, *)
(* so that equality, substring search and case folding are computed.       *)
(* Amounts are integers (cents); dates are day numbers of a model calendar *)
(* whose months have DaysPerMonth days.                                    *)
(***************************************************************************)
EXTENDS Integers, Sequences, FiniteSets, TLC

VARIABLES
    session_state,     \* st.session_state: a function from the keys present
    db,                \* rows of the transactions table
    uploaded_file,     \* the file_uploader widget's value
    confirm_text,      \* the confirmation text_input's value
    select_all,        \* the "Select All Periods" checkbox
    selected_periods,  \* the period multiselect's value
    view,              \* what the last run rendered
    event              \* the interaction that triggered the last run

vars == <<session_state, db, uploaded_file, confirm_text, select_all,
          selected_periods, view, event>>

----------------------------------------------------------------------------
(* Bounds *)

MaxDate == 4        \* dates are 1..MaxDate
DaysPerMonth == 2   \* length of a calendar month of the model calendar
MaxRows == 2        \* rows of a drawn transaction set (SpecPeriods)
MaxDbRows == 4      \* rows the transactions table can hold (Spec)

----------------------------------------------------------------------------
(* Text: sequences of one-character strings *)

UpperCase == <<"A","B","C","D","E","F","G","H","I","J","K","L","M",
               "N","O","P","Q","R","S","T","U","V","W","X","Y","Z">>
LowerCase == <<"a","b","c","d","e","f","g","h","i","j","k","l","m",
               "n","o","p","q","r","s","t","u","v","w","x","y","z">>

Range(s) == {s[i] : i \in DOMAIN s}

LowerChar(c) ==
    IF \E i \in DOMAIN UpperCase : UpperCase[i] = c
    THEN LowerCase[CHOOSE i \in DOMAIN UpperCase : UpperCase[i] = c]
    ELSE c

Lower(s) == [i \in DOMAIN s |-> LowerChar(s[i])]

\* a missing category (NaN / None in the Categoria column)
NA == <<"<NA>">>

IsSubstring(pat, s) ==
    \E i \in 1..(Len(s) - Len(pat) + 1) : SubSeq(s, i, i + Len(pat) - 1) = pat

\* Series.str.contains(pat, case=False, na=False), for one cell
StrContains(s, pat) ==
    IF s = NA THEN FALSE ELSE IsSubstring(Lower(pat), Lower(s))

SalaryLabel ==
    <<"S","t","i","p","e","n","d","i"," ","e"," ","p","e","n","s","i","o","n","i">>
Investimenti == <<"I","n","v","e","s","t","i","m","e","n","t","i">>
Risparmi == <<"R","i","s","p","a","r","m","i">>

\* the category texts of the model, in the order Python sorts them
Categories ==
    << <<"I","n","v","e","s","t","i","m","e","n","t","i"," ","-"," ","E","T","F">>,
       <<"S","p","e","s","a">>,
       SalaryLabel,
       <<"r","i","s","p","a","r","m","i"," ","c","o","n","t","o">>,
       <<"s","t","i","p","e","n","d","i"," ","e"," ","p","e","n","s","i","o","n","i">> >>

\* StrContains over the texts and keywords of the model, computed once
ContainsTable ==
    [s \in Range(Categories) \cup {NA} |->
        [pat \in {Investimenti, Risparmi} |-> StrContains(s, pat)]]
ContainsNoCase(s, pat) == ContainsTable[s][pat]

----------------------------------------------------------------------------
(* Generic helpers *)

RECURSIVE SumSeq(_)
SumSeq(s) == IF s = <<>> THEN 0 ELSE Head(s) + SumSeq(Tail(s))

Max(S) == CHOOSE x \in S : \A y \in S : y <= x
Min(S) == CHOOSE x \in S : \A y \in S : x <= y
Abs(x) == IF x < 0 THEN -x ELSE x

\* the elements of a set of integers as an increasing sequence
RECURSIVE SortedSeqOf(_)
SortedSeqOf(S) ==
    IF S = {} THEN <<>> ELSE <<Min(S)>> \o SortedSeqOf(S \ {Min(S)})

Column(df, c) == [i \in DOMAIN df |-> df[i][c]]

\* DataFrame.sort_values("Data"): insertion sort on the Data column
RECURSIVE InsertByData(_, _)
InsertByData(r, s) ==
    IF s = <<>> THEN <<r>>
    ELSE IF r.Data < Head(s).Data THEN <<r>> \o s
    ELSE <<Head(s)>> \o InsertByData(r, Tail(s))

RECURSIVE SortByData(_)
SortByData(df) ==
    IF df = <<>> THEN <<>>
    ELSE InsertByData(df[Len(df)], SortByData(SubSeq(df, 1, Len(df) - 1)))

----------------------------------------------------------------------------
(* Period assignment: lines 216-231 *)

NaT == 0                    \* pd.NaT: no anchor
NoPeriod == <<"NaN">>       \* the PeriodName of NaT

Dates == 1..MaxDate
YearMonth(d) == (d - 1) \div DaysPerMonth      \* Series.dt.to_period("M")

IsSalaryIgnoringCase(r) == StrContains(r.Categoria, SalaryLabel)
IsSalary(r) == r.Categoria = SalaryLabel

SalaryDf(working_df) == SelectSeq(working_df, IsSalary)

\* groupby("YearMonth")["Data"].min().sort_values().reset_index(drop=True)
SalaryPeriodsEveryDate(working_df) ==
    SortedSeqOf({r.Data : r \in Range(SalaryDf(working_df))})
SalaryPeriods(working_df) ==
    LET sal    == Range(SalaryDf(working_df))
        months == {YearMonth(r.Data) : r \in sal}
    IN  SortedSeqOf({Min({r.Data : r \in {x \in sal : YearMonth(x.Data) = m}})
                       : m \in months})

assign_personal_month_strict(salary_periods, date) ==
    LET past_periods == {a \in Range(salary_periods) : a < date}
    IN  IF past_periods # {} THEN Max(past_periods) ELSE NaT
assign_personal_month(salary_periods, date) ==
    LET past_periods == {a \in Range(salary_periods) : a <= date}
    IN  IF past_periods # {} THEN Max(past_periods) ELSE NaT

\* dt.strftime("%Y_%m_%b"): the year and month of the anchor, day dropped
PeriodName(pms) == IF pms = NaT THEN NoPeriod ELSE <<"Y_m_b", YearMonth(pms)>>

\* working_df with the PersonalMonthStart and PeriodName columns
Annotate(working_df) ==
    LET sp == SalaryPeriods(working_df)
    IN  [i \in DOMAIN working_df |->
           LET a == assign_personal_month(sp, working_df[i].Data)
           IN  [Data |-> working_df[i].Data,
                Operazione |-> working_df[i].Operazione,
                Categoria |-> working_df[i].Categoria,
                Importo |-> working_df[i].Importo,
                user_id |-> working_df[i].user_id,
                PersonalMonthStart |-> a,
                PeriodName |-> PeriodName(a)]]

\* drop_duplicates().dropna().sort_values("PersonalMonthStart"), then PeriodName
PeriodList(annotated) ==
    LET starts == SortedSeqOf({r.PersonalMonthStart : r \in Range(annotated)} \ {NaT})
    IN  [i \in DOMAIN starts |-> PeriodName(starts[i])]

\* the multiselect's default
DefaultSelection(period_list, all) ==
    IF all THEN Range(period_list)
    ELSE IF period_list # <<>> THEN {period_list[Len(period_list)]} ELSE {}

----------------------------------------------------------------------------
(* Selection and aggregation: lines 239-279 *)

\* df[df["PeriodName"].isin(selected_periods)], or df.iloc[0:0]
SelectRows(annotated, selected) ==
    LET InSel(r) == r.PeriodName \in selected
    IN  IF selected # {} THEN SelectSeq(annotated, InSel) ELSE <<>>

Negative(df) == LET T(r) == r.Importo < 0 IN SelectSeq(df, T)
Positive(df) == LET T(r) == r.Importo > 0 IN SelectSeq(df, T)
Matching(df, pat) == LET T(r) == ContainsNoCase(r.Categoria, pat) IN SelectSeq(df, T)

TotalExpenses(df) == SumSeq(Column(Negative(df), "Importo"))
TotalIncome(df) == SumSeq(Column(Positive(df), "Importo"))
TotalInvestments(df) == SumSeq(Column(Matching(Negative(df), Investimenti), "Importo"))
TotalSavings(df) == SumSeq(Column(Matching(Negative(df), Risparmi), "Importo"))

\* rows whose category contains neither keyword (a missing category stays)
DfChartsKeepingSavings(df) ==
    LET T(r) == ~ContainsNoCase(r.Categoria, Investimenti)
    IN  SelectSeq(df, T)
DfCharts(df) ==
    LET T(r) == ~ContainsNoCase(r.Categoria, Investimenti)
                /\ ~ContainsNoCase(r.Categoria, Risparmi)
    IN  SelectSeq(df, T)

\* stable insertion sort of [Categoria, Importo] entries, largest first
RECURSIVE InsertDescending(_, _)
InsertDescending(e, s) ==
    IF s = <<>> THEN <<e>>
    ELSE IF e.Importo > Head(s).Importo THEN <<e>> \o s
    ELSE <<Head(s)>> \o InsertDescending(e, Tail(s))

RECURSIVE SortDescending(_)
SortDescending(s) ==
    IF s = <<>> THEN <<>>
    ELSE InsertDescending(s[Len(s)], SortDescending(SubSeq(s, 1, Len(s) - 1)))

\* groupby("Categoria")["Importo"].sum().abs().sort_values(ascending=False):
\* one entry per category text present; rows with a missing category form no group
CategoryExpenses(df_charts) ==
    LET neg     == Negative(df_charts)
        Present(c) == \E r \in Range(neg) : r.Categoria = c
        keys    == SelectSeq(Categories, Present)
        Of(c)   == LET T(r) == r.Categoria = c IN SelectSeq(neg, T)
    IN  SortDescending([i \in DOMAIN keys |->
            [Categoria |-> keys[i],
             Importo |-> Abs(SumSeq(Column(Of(keys[i]), "Importo")))]])

\* groupby("PeriodName")["Importo"].agg(Expenses, Income), reindex(period_list),
\* fillna(0), then the Net column
MonthlySummaryGroupsOnly(df_charts, period_list) ==
    LET Present(p) == \E r \in Range(df_charts) : r.PeriodName = p
        keys  == SelectSeq(period_list, Present)
        Of(p) == LET T(r) == r.PeriodName = p IN SelectSeq(df_charts, T)
    IN  [i \in DOMAIN keys |->
           [PeriodName |-> keys[i],
            Expenses |-> TotalExpenses(Of(keys[i])),
            Income |-> TotalIncome(Of(keys[i])),
            Net |-> TotalIncome(Of(keys[i])) + TotalExpenses(Of(keys[i]))]]
MonthlySummary(df_charts, period_list) ==
    LET Present(p) == \E r \in Range(df_charts) : r.PeriodName = p
        Of(p) == LET T(r) == r.PeriodName = p IN SelectSeq(df_charts, T)
        Exp(p) == IF Present(p) THEN TotalExpenses(Of(p)) ELSE 0
        Inc(p) == IF Present(p) THEN TotalIncome(Of(p)) ELSE 0
    IN  [i \in DOMAIN period_list |->
           [PeriodName |-> period_list[i],
            Expenses |-> Exp(period_list[i]),
            Income |-> Inc(period_list[i]),
            Net |-> Inc(period_list[i]) + Exp(period_list[i])]]

----------------------------------------------------------------------------
(* Session state, files and the database *)

Put(s, k, v) == [x \in DOMAIN s \cup {k} |-> IF x = k THEN v ELSE s[x]]
Has(s, k) == k \in DOMAIN s
EmptySession == [x \in {} |-> FALSE]              \* session_state.clear()

UserId == "u1"
\* what session_state.user can hold: the client's user object, the older
\* client's dict, or None
UserObject == [kind |-> "object", id |-> UserId]
UserDict == [kind |-> "dict", id |-> UserId]
None == [kind |-> "None", id |-> "None"]

\* a cell of an uploaded sheet: <<v>> when it parses, <<>> when it does not
\* (to_datetime / to_numeric with errors="coerce" give NaT / NaN)
Cell(v) == <<v>>
Unparseable == <<>>

NoFile == [uploaded |-> FALSE, readable |-> FALSE, rows |-> <<>>]

\* the uploads the user has at hand
SampleFiles ==
    { [uploaded |-> TRUE, readable |-> TRUE, rows |->
         << [Data |-> Cell(1), Operazione |-> "stipendio", Categoria |-> SalaryLabel,
             Importo |-> Cell(3)],
            [Data |-> Cell(2), Operazione |-> "spesa", Categoria |-> Categories[2],
             Importo |-> Cell(-1)] >>],
      [uploaded |-> TRUE, readable |-> TRUE, rows |->
         << [Data |-> Unparseable, Operazione |-> "saldo", Categoria |-> NA,
             Importo |-> Cell(5)],
            [Data |-> Cell(MaxDate), Operazione |-> "etf", Categoria |-> Categories[1],
             Importo |-> Cell(-2)],
            [Data |-> Cell(MaxDate - 1), Operazione |-> "stipendio",
             Categoria |-> SalaryLabel, Importo |-> Cell(3)] >>],
      [uploaded |-> TRUE, readable |-> FALSE, rows |-> <<>>] }

\* lines 158-193: df_preview, or None when anything in the try block raises
NoPreview == [is_none |-> TRUE, rows |-> <<>>]
ParsePreview(file) ==
    IF ~file.uploaded \/ ~file.readable THEN NoPreview
    ELSE LET Kept(r) == r.Data # Unparseable /\ r.Importo # Unparseable   \* dropna
             kept == SelectSeq(file.rows, Kept)
         IN  [is_none |-> FALSE,
              rows |-> SortByData([i \in DOMAIN kept |->
                          [Data |-> kept[i].Data[1],
                           Operazione |-> kept[i].Operazione,
                           Categoria |-> kept[i].Categoria,
                           Importo |-> kept[i].Importo[1]]])]

\* df_preview["user_id"] = st.session_state.user_id
WithUser(rows, uid) ==
    [i \in DOMAIN rows |->
        [Data |-> rows[i].Data, Operazione |-> rows[i].Operazione,
         Categoria |-> rows[i].Categoria, Importo |-> rows[i].Importo,
         user_id |-> uid]]

\* SELECT * FROM transactions WHERE user_id = :uid ORDER BY "Data"
LoadRows(table, uid) ==
    LET Mine(r) == r.user_id = uid IN SortByData(SelectSeq(table, Mine))

\* lines 196-208: the preview is concatenated to the session's rows; the
\* _hash columns are computed and dropped, no row is removed
Merge(combined_df, preview, uid) ==
    IF preview.is_none THEN combined_df
    ELSE SortByData(combined_df \o WithUser(preview.rows, uid))

----------------------------------------------------------------------------
(* One run of app_ui: lines 131-366 *)

\* a run that rendered no summary: the sign-in page, an uncaught exception,
\* or the main page with no transaction at all
BlankView(screen, messages, save_widgets) ==
    [screen |-> screen, messages |-> messages, computed |-> FALSE,
     working_df |-> <<>>, salary_periods |-> <<>>, period_list |-> <<>>, df |-> <<>>,
     total_expenses |-> 0, total_income |-> 0,
     total_investments |-> 0, total_savings |-> 0,
     category_expenses |-> <<>>, monthly_summary |-> <<>>,
     save_widgets |-> save_widgets]

\* lines 214-294: what is rendered for a non-empty working_df
SummaryView(annotated, period_list, selected, messages, save_widgets) ==
    LET df == SelectRows(annotated, selected)
        df_charts == DfCharts(df)
    IN  [screen |-> "app", messages |-> messages, computed |-> TRUE,
         working_df |-> annotated,
         salary_periods |-> SalaryPeriods(annotated),
         period_list |-> period_list, df |-> df,
         total_expenses |-> TotalExpenses(df), total_income |-> TotalIncome(df),
         total_investments |-> TotalInvestments(df),
         total_savings |-> TotalSavings(df),
         category_expenses |-> CategoryExpenses(df_charts),
         monthly_summary |-> MonthlySummary(df_charts, period_list),
         save_widgets |-> save_widgets]

\* lines 322-348: the confirmed write, the session update after it, and the
\* except branch (df_preview None raises TypeError at line 326)
ConfirmSaveUpdatingFirst(s, table, combined_df, df_preview, write_ok) ==
    IF df_preview.is_none
    THEN [session |-> s, db |-> table, messages |-> {"Error saving data"}]
    ELSE LET rows == WithUser(df_preview.rows, s.user_id)
         IN  IF ~write_ok
             THEN [session |-> Put(s, "combined_df", combined_df \o rows),
                   db |-> table, messages |-> {"Error saving data"}]
             ELSE [session |-> Put(Put(s, "combined_df", combined_df \o rows),
                                   "saving_mode", FALSE),
                   db |-> table \o rows, messages |-> {"Successfully saved"}]
ConfirmSave(s, table, combined_df, df_preview, write_ok) ==
    IF df_preview.is_none \/ ~write_ok
    THEN [session |-> s, db |-> table, messages |-> {"Error saving data"}]
    ELSE LET rows == WithUser(df_preview.rows, s.user_id)
         IN  [session |-> Put(Put(s, "combined_df", combined_df \o rows),
                              "saving_mode", FALSE),
              db |-> table \o rows, messages |-> {"Successfully saved"}]

\* lines 310-314: the Save button enters saving mode only with a file uploaded
PressSaveStepIgnoringUpload(s, pressed, file) ==
    IF pressed THEN Put(s, "saving_mode", TRUE) ELSE s
PressSaveStep(s, pressed, file) ==
    IF pressed /\ file.uploaded THEN Put(s, "saving_mode", TRUE) ELSE s

\* line 323
ConfirmTextOk(text) == text = "Confirm"

\* the widgets' values when none of them was rendered
ResetWidgets(r) ==
    [session_state |-> r.session_state, db |-> r.db, view |-> r.view,
     uploaded_file |-> NoFile, confirm_text |-> "",
     select_all |-> TRUE, selected_periods |-> {}]

\* the state a run of app_ui leaves, from the state before it, the interaction
\* ev that triggered it and the outcomes of its three database accesses
app_ui(s0, table, file_prev, text_prev, all_prev, selected_prev, prev, ev, ensure_ok, load_ok, write_ok) ==
    IF s0.user.kind # "object" \/ ~ensure_ok
    THEN \* line 133 (no .email) or line 135 raised: the run stops there
         ResetWidgets([session_state |-> s0, db |-> table,
                       view |-> BlankView("exception", {}, FALSE)])
    ELSE
    LET need_load == ~Has(s0, "combined_df")
        s1 == IF need_load
              THEN Put(s0, "combined_df",
                       IF load_ok THEN LoadRows(table, s0.user_id) ELSE <<>>)
              ELSE s0
        load_msgs == IF need_load /\ ~load_ok THEN {"Could not load DB data"} ELSE {}
        file == IF ev.kind = "upload" THEN ev.file
                ELSE IF ev.kind = "remove_file" THEN NoFile ELSE file_prev
        df_preview == ParsePreview(file)
        parse_msgs == IF ~file.uploaded THEN {"No new file uploaded"}
                      ELSE IF df_preview.is_none
                      THEN {"Could not parse uploaded file", "No new file uploaded"}
                      ELSE {"Preview loaded"}
        combined_df == s1.combined_df
        working_df == Merge(combined_df, df_preview, s1.user_id)
        nonempty == working_df # <<>>
        annotated == Annotate(working_df)
        period_list == PeriodList(annotated)
        all == IF ~nonempty THEN TRUE
               ELSE IF ev.kind = "toggle_select_all" THEN ~all_prev ELSE all_prev
        default == DefaultSelection(period_list, all)
        same_widget == /\ prev.computed
                       /\ prev.period_list = period_list
                       /\ DefaultSelection(prev.period_list, all_prev) = default
        selected == IF ~nonempty THEN {}
                    ELSE IF ~same_widget THEN default
                    ELSE IF ev.kind = "select" THEN ev.selection ELSE selected_prev
        filter_msgs == IF ~nonempty THEN {"No transactions loaded"}
                       ELSE IF selected = {} THEN {"No periods selected"} ELSE {}
        s2 == IF Has(s1, "saving_mode") THEN s1 ELSE Put(s1, "saving_mode", FALSE)
        s3 == PressSaveStep(s2, ev.kind = "save", file)
        save_msgs == IF ev.kind = "save" /\ ~file.uploaded
                     THEN {"Please upload a file before saving"} ELSE {}
        saving == s3.saving_mode
        text == IF ~saving THEN ""
                ELSE IF ev.kind = "confirm_text" THEN ev.text
                ELSE IF prev.save_widgets THEN text_prev ELSE ""
        pressed == saving /\ ev.kind = "confirm_save"
        saved == IF pressed /\ ConfirmTextOk(text)
                 THEN ConfirmSave(s3, table, combined_df, df_preview, write_ok)
                 ELSE [session |-> s3, db |-> table,
                       messages |-> IF pressed THEN {"You must type 'Confirm'"} ELSE {}]
        cancel == saving /\ ev.kind = "cancel"
        s5 == IF cancel THEN Put(saved.session, "saving_mode", FALSE) ELSE saved.session
        cancel_msgs == IF cancel THEN {"Save canceled"} ELSE {}
        messages == load_msgs \cup parse_msgs \cup filter_msgs \cup save_msgs
                    \cup saved.messages \cup cancel_msgs
    IN  IF ev.kind = "logout"
        THEN \* session_state.clear() and st.rerun(): the sign-in page
             ResetWidgets([session_state |-> EmptySession, db |-> table,
                           view |-> BlankView("auth", {}, FALSE)])
        ELSE [session_state |-> s5, db |-> saved.db,
              uploaded_file |-> file, confirm_text |-> text,
              select_all |-> all, selected_periods |-> selected,
              view |-> IF nonempty
                       THEN SummaryView(annotated, period_list, selected, messages, saving)
                       ELSE BlankView("app", messages, saving)]

\* the run triggered by interaction ev
AppRun(ev, ensure_ok, load_ok, write_ok) ==
    /\ Has(session_state, "user")
    /\ \E r \in {app_ui(session_state, db, uploaded_file, confirm_text, select_all,
                         selected_periods, view, ev, ensure_ok, load_ok, write_ok)} :
           /\ session_state' = r.session_state
           /\ db' = r.db
           /\ uploaded_file' = r.uploaded_file
           /\ confirm_text' = r.confirm_text
           /\ select_all' = r.select_all
           /\ selected_periods' = r.selected_periods
           /\ view' = r.view
    /\ event' = ev

----------------------------------------------------------------------------
(* Sign-in: lines 53-66 and 374-377 *)

\* what supabase.auth.sign_in_with_password can do: raise, or return a
\* response object or (older client) a dict, with or without a user
SignInResponses ==
    {"raises", "object_user", "object_no_user", "dict_user", "dict_no_user"}

\* the session after the Login handler, and whether it reached st.rerun()
Login(s, response) ==
    CASE response = "object_user" ->
           [session |-> Put(Put(s, "user", UserObject), "user_id", UserId),
            rerun |-> TRUE]
      [] response = "dict_user" ->
           \* line 56: no .user attribute, a dict, with a "user" entry
           [session |-> Put(Put(s, "user", UserDict), "user_id", UserId),
            rerun |-> TRUE]
      [] response = "raises" ->
           [session |-> s, rerun |-> FALSE]
      [] response = "object_no_user" ->
           \* line 61 stores res.user (None), line 62 raises on None.id
           [session |-> Put(s, "user", None), rerun |-> FALSE]
      [] response = "dict_no_user" ->
           \* line 61 raises on res.user before anything is stored
           [session |-> s, rerun |-> FALSE]

----------------------------------------------------------------------------
(* The interactions *)

\* the Login button of auth_ui, shown while the session holds no "user" key
PressLogin ==
    /\ ~Has(session_state, "user")
    /\ \E response \in SignInResponses, ensure_ok \in BOOLEAN, load_ok \in BOOLEAN :
         \E l \in {Login(session_state, response)},
            ev \in {[kind |-> "login", response |-> response]} :
         \E r \in {IF l.rerun
                    THEN app_ui(l.session, db, uploaded_file, confirm_text, select_all,
                                selected_periods, view, ev, ensure_ok, load_ok, TRUE)
                    ELSE ResetWidgets([session_state |-> l.session, db |-> db,
                             view |-> BlankView("auth", {"Login failed"}, FALSE)])} :
             /\ event' = ev
             /\ session_state' = r.session_state
             /\ db' = r.db
             /\ uploaded_file' = r.uploaded_file
             /\ confirm_text' = r.confirm_text
             /\ select_all' = r.select_all
             /\ selected_periods' = r.selected_periods
             /\ view' = r.view

\* any interaction that presses none of app_ui's buttons, while the session
\* holds a "user" key: a page rerun, or a click on what an earlier run left
Rerun ==
    \E ensure_ok \in BOOLEAN, load_ok \in BOOLEAN :
        AppRun([kind |-> "rerun"], ensure_ok, load_ok, TRUE)

UploadFile ==
    /\ view.screen = "app"
    /\ \E f \in SampleFiles, ensure_ok \in BOOLEAN :
         /\ f # uploaded_file
         /\ AppRun([kind |-> "upload", file |-> f], ensure_ok, TRUE, TRUE)

RemoveFile ==
    /\ view.screen = "app"
    /\ uploaded_file.uploaded
    /\ \E ensure_ok \in BOOLEAN : AppRun([kind |-> "remove_file"], ensure_ok, TRUE, TRUE)

ToggleSelectAll ==
    /\ view.screen = "app"
    /\ view.computed
    /\ \E ensure_ok \in BOOLEAN :
         AppRun([kind |-> "toggle_select_all"], ensure_ok, TRUE, TRUE)

SelectPeriods ==
    /\ view.screen = "app"
    /\ view.computed
    /\ \E selection \in SUBSET Range(view.period_list), ensure_ok \in BOOLEAN :
         /\ selection # selected_periods
         /\ AppRun([kind |-> "select", selection |-> selection], ensure_ok, TRUE, TRUE)

PressSave ==
    /\ view.screen = "app"
    /\ \E ensure_ok \in BOOLEAN : AppRun([kind |-> "save"], ensure_ok, TRUE, TRUE)

ConfirmTexts == {"", "Confirm", "confirm"}

TypeConfirmText ==
    /\ view.screen = "app"
    /\ view.save_widgets
    /\ \E text \in ConfirmTexts, ensure_ok \in BOOLEAN :
         /\ text # confirm_text
         /\ AppRun([kind |-> "confirm_text", text |-> text], ensure_ok, TRUE, TRUE)

PressConfirmSave ==
    /\ view.screen = "app"
    /\ view.save_widgets
    /\ Len(db) + Len(ParsePreview(uploaded_file).rows) <= MaxDbRows
    /\ \E ensure_ok \in BOOLEAN, write_ok \in BOOLEAN :
         AppRun([kind |-> "confirm_save", write_ok |-> write_ok],
                ensure_ok, TRUE, write_ok)

PressCancel ==
    /\ view.screen = "app"
    /\ view.save_widgets
    /\ \E ensure_ok \in BOOLEAN : AppRun([kind |-> "cancel"], ensure_ok, TRUE, TRUE)

Logout ==
    /\ view.screen = "app"
    /\ \E ensure_ok \in BOOLEAN : AppRun([kind |-> "logout"], ensure_ok, TRUE, TRUE)

----------------------------------------------------------------------------
(* The session: from the first page load *)

Init ==
    /\ session_state = EmptySession
    /\ db = <<>>
    /\ uploaded_file = NoFile
    /\ confirm_text = ""
    /\ select_all = TRUE
    /\ selected_periods = {}
    /\ view = BlankView("auth", {}, FALSE)
    /\ event = [kind |-> "open"]

Next ==
    \/ PressLogin
    \/ Rerun
    \/ UploadFile
    \/ RemoveFile
    \/ ToggleSelectAll
    \/ SelectPeriods
    \/ PressSave
    \/ TypeConfirmText
    \/ PressConfirmSave
    \/ PressCancel
    \/ Logout

Spec == Init /\ [][Next]_vars

----------------------------------------------------------------------------
(* Period assignment and aggregation over every stored transaction set *)

Amounts == {-1, 2}

RowUniverse ==
    [Data : Dates, Operazione : {"op"}, Categoria : Range(Categories) \cup {NA},
     Importo : Amounts, user_id : {UserId}]

\* the tables of at most MaxRows rows, rows of one date in either order
TransactionSets ==
    UNION { {t \in [1..n -> RowUniverse] :
               \A i \in 1..(n - 1) : t[i].Data <= t[i + 1].Data} : n \in 0..MaxRows }

\* a signed-in session's first run over a stored table
InitPeriods ==
    \E table \in TransactionSets :
        \E ev \in {[kind |-> "login", response |-> "object_user"]} :
        \E r \in {app_ui(Login(EmptySession, "object_user").session, table, NoFile,
                          "", TRUE, {}, BlankView("auth", {}, FALSE), ev,
                          TRUE, TRUE, TRUE)} :
            /\ session_state = r.session_state
            /\ db = r.db
            /\ uploaded_file = r.uploaded_file
            /\ confirm_text = r.confirm_text
            /\ select_all = r.select_all
            /\ selected_periods = r.selected_periods
            /\ view = r.view
            /\ event = ev

NextPeriods ==
    \/ ToggleSelectAll
    \/ SelectPeriods

SpecPeriods == InitPeriods /\ [][NextPeriods]_vars

----------------------------------------------------------------------------
(* Properties.  The oracles below restate what the specification says,     *)
(* without the operators of the model.                                     *)

RECURSIVE SumAmounts(_, _)
SumAmounts(df, I) ==
    IF I = {} THEN 0
    ELSE LET i == CHOOSE x \in I : TRUE
         IN  df[i].Importo + SumAmounts(df, I \ {i})

RECURSIVE SumAbsAmounts(_, _)
SumAbsAmounts(df, I) ==
    IF I = {} THEN 0
    ELSE LET i == CHOOSE x \in I : TRUE
         IN  Abs(df[i].Importo) + SumAbsAmounts(df, I \ {i})

\* the rows carrying exactly the salary label
SalaryRowsOf(df) == {i \in DOMAIN df : df[i].Categoria = SalaryLabel}

\* the dates that are the earliest salary date of their calendar month
AnchorDates(df) ==
    {d \in Dates :
        /\ \E i \in SalaryRowsOf(df) : df[i].Data = d
        /\ \A j \in SalaryRowsOf(df) :
              YearMonth(df[j].Data) = YearMonth(d) => d <= df[j].Data}

\* the category texts of the model that contain each keyword, by inspection:
\* "Investimenti - ETF" and "risparmi conto"
InvestmentCategories == {Categories[1]}
SavingsCategories == {Categories[4]}

\* C1: every transaction's PersonalMonthStart is the greatest salary anchor at
\* or before its date (a transaction dated on an anchor belongs to that
\* anchor's period), or null when there is none; and a later transaction never
\* has an earlier anchor.
C1_AnchorIsGreatestAtOrBefore ==
    view.computed =>
        LET w == view.working_df
            A == AnchorDates(w)
        IN  /\ \A i \in DOMAIN w :
                  LET past == {a \in A : a <= w[i].Data}
                  IN  IF past = {} THEN w[i].PersonalMonthStart = NaT
                      ELSE /\ w[i].PersonalMonthStart \in past
                           /\ \A a \in past : a <= w[i].PersonalMonthStart
            /\ \A i, j \in DOMAIN w :
                  w[i].Data <= w[j].Data
                    => w[i].PersonalMonthStart <= w[j].PersonalMonthStart

\* two anchors, and a transaction dated exactly on the later one
C1_Witness ==
    /\ view.computed
    /\ \E i, j \in DOMAIN view.working_df :
          /\ view.working_df[i].PersonalMonthStart # NaT
          /\ view.working_df[i].PersonalMonthStart
                < view.working_df[j].PersonalMonthStart
          /\ view.working_df[j].Data = view.working_df[j].PersonalMonthStart

\* C2: the anchor sequence built from the rows whose category equals the
\* salary label is strictly increasing and holds exactly one anchor per
\* calendar month that has a salary row: the earliest salary date of the month.
C2_OneAnchorPerMonth ==
    view.computed =>
        LET w  == view.working_df
            sp == view.salary_periods
            S  == SalaryRowsOf(w)
            months == {YearMonth(w[i].Data) : i \in S}
        IN  /\ \A k \in 1..(Len(sp) - 1) : sp[k] < sp[k + 1]
            /\ \A m \in months :
                  Cardinality({k \in DOMAIN sp : YearMonth(sp[k]) = m}) = 1
            /\ \A k \in DOMAIN sp :
                  /\ \E i \in S : w[i].Data = sp[k]
                  /\ \A i \in S :
                        YearMonth(w[i].Data) = YearMonth(sp[k]) => sp[k] <= w[i].Data

\* two salary rows of one month, on different days, collapsed to one anchor
C2_Witness ==
    /\ view.computed
    /\ Len(view.salary_periods) = 1
    /\ \E i, j \in SalaryRowsOf(view.working_df) :
          view.working_df[i].Data < view.working_df[j].Data

\* C3: over a non-empty transaction set with no salary row, the run completes
\* and renders the main page, every PersonalMonthStart and PeriodName is null,
\* and the period list is empty (nothing is selected, the summary is empty).
C3_NoSalaryNoPeriods ==
    ( /\ view.screen = "app"
      /\ ~uploaded_file.uploaded
      /\ session_state.combined_df # <<>>
      /\ SalaryRowsOf(session_state.combined_df) = {} )
    => /\ view.computed
       /\ Len(view.working_df) = Len(session_state.combined_df)
       /\ \A i \in DOMAIN view.working_df :
             /\ view.working_df[i].PersonalMonthStart = NaT
             /\ view.working_df[i].PeriodName = NoPeriod
       /\ view.period_list = <<>>
       /\ selected_periods = {}
       /\ view.monthly_summary = <<>>
       /\ "No periods selected" \in view.messages

\* two rows, one of them with the salary label in lower case, and no salary row
C3_Witness ==
    /\ view.computed
    /\ Len(view.working_df) >= 2
    /\ SalaryRowsOf(view.working_df) = {}
    /\ \E i \in DOMAIN view.working_df : view.working_df[i].Categoria = Categories[5]

\* C4, as claimed: with every period selected, the Net values of the per-period
\* summary add up to the amounts of all transactions with a period.
C4_NetSumsAllAssigned ==
    (view.computed /\ selected_periods = Range(view.period_list)) =>
        SumSeq(Column(view.monthly_summary, "Net"))
          = SumAmounts(view.working_df,
                {i \in DOMAIN view.working_df :
                    view.working_df[i].PersonalMonthStart # NaT})

\* C4, amended: with every period selected, the Net values (Income + Expenses
\* of each row) add up to the amounts of the transactions with a period whose
\* category contains neither "investimenti" nor "risparmi".
C4_NetSumsAssignedOutsideKeywords ==
    (view.computed /\ selected_periods = Range(view.period_list)) =>
        /\ \A k \in DOMAIN view.monthly_summary :
              view.monthly_summary[k].Net
                = view.monthly_summary[k].Income + view.monthly_summary[k].Expenses
        /\ SumSeq(Column(view.monthly_summary, "Net"))
             = SumAmounts(view.working_df,
                  {i \in DOMAIN view.working_df :
                      /\ view.working_df[i].PersonalMonthStart # NaT
                      /\ view.working_df[i].Categoria
                            \notin InvestmentCategories \cup SavingsCategories})

\* every period selected, a savings row and another row both in a period
C4_Witness ==
    /\ view.computed
    /\ view.period_list # <<>>
    /\ selected_periods = Range(view.period_list)
    /\ \E i, j \in DOMAIN view.working_df :
          /\ view.working_df[i].PersonalMonthStart # NaT
          /\ view.working_df[i].Categoria \in SavingsCategories
          /\ view.working_df[j].PersonalMonthStart # NaT
          /\ view.working_df[j].Categoria \notin InvestmentCategories \cup SavingsCategories

\* C6: a selected negative transaction whose category contains "investimenti"
\* or "risparmi" counts in Total Expenses and in the Investments or the Savings
\* total, and in no entry of the per-category breakdown; every other selected
\* negative transaction contributes its absolute amount to the entry of its
\* own category.
C6_KeywordRowsOutsideBreakdown ==
    view.computed =>
        LET df    == view.df
            ce    == view.category_expenses
            neg   == {i \in DOMAIN df : df[i].Importo < 0}
            inv   == {i \in neg : df[i].Categoria \in InvestmentCategories}
            sav   == {i \in neg : df[i].Categoria \in SavingsCategories}
            other == neg \ (inv \cup sav)
        IN  /\ view.total_expenses = SumAmounts(df, neg)
            /\ view.total_investments = SumAmounts(df, inv)
            /\ view.total_savings = SumAmounts(df, sav)
            /\ \A k \in DOMAIN ce :
                  /\ ce[k].Categoria \notin InvestmentCategories \cup SavingsCategories
                  /\ \E i \in other : df[i].Categoria = ce[k].Categoria
                  /\ \A l \in DOMAIN ce : ce[l].Categoria = ce[k].Categoria => l = k
            /\ \A i \in other :
                  \E k \in DOMAIN ce :
                     /\ ce[k].Categoria = df[i].Categoria
                     /\ ce[k].Importo
                          = SumAbsAmounts(df, {j \in other :
                                                 df[j].Categoria = df[i].Categoria})

\* C6 for the rows that have a category: the statement above with "every
\* other selected negative transaction" read as "every other selected negative
\* transaction whose category is present"; holds in every state of SpecPeriods.
C6_RowsWithACategory ==
    view.computed =>
        LET df    == view.df
            ce    == view.category_expenses
            neg   == {i \in DOMAIN df : df[i].Importo < 0}
            inv   == {i \in neg : df[i].Categoria \in InvestmentCategories}
            sav   == {i \in neg : df[i].Categoria \in SavingsCategories}
            other == {i \in neg \ (inv \cup sav) : df[i].Categoria # NA}
        IN  /\ view.total_expenses = SumAmounts(df, neg)
            /\ view.total_investments = SumAmounts(df, inv)
            /\ view.total_savings = SumAmounts(df, sav)
            /\ \A k \in DOMAIN ce :
                  /\ ce[k].Categoria \notin InvestmentCategories \cup SavingsCategories
                  /\ \E i \in other : df[i].Categoria = ce[k].Categoria
                  /\ \A l \in DOMAIN ce : ce[l].Categoria = ce[k].Categoria => l = k
            /\ \A i \in other :
                  \E k \in DOMAIN ce :
                     /\ ce[k].Categoria = df[i].Categoria
                     /\ ce[k].Importo
                          = SumAbsAmounts(df, {j \in other :
                                                 df[j].Categoria = df[i].Categoria})

\* C7: the per-period summary has exactly one row for each label of the full
\* period list (one label per anchor), in anchor order; a period with no
\* transaction in the selection has Expenses = 0, Income = 0 and Net = 0.
C7_EveryPeriodHasARow ==
    view.computed =>
        LET pl == view.period_list
            ms == view.monthly_summary
            A  == AnchorDates(view.working_df)
        IN  /\ Len(pl) = Cardinality(A)
            /\ \A k \in DOMAIN pl : \E a \in A : pl[k] = <<"Y_m_b", YearMonth(a)>>
            /\ \A k \in 1..(Len(pl) - 1) : pl[k][2] < pl[k + 1][2]
            /\ Len(ms) = Len(pl)
            /\ \A k \in DOMAIN pl :
                  /\ ms[k].PeriodName = pl[k]
                  /\ (\A i \in DOMAIN view.df : view.df[i].PeriodName # pl[k])
                       => /\ ms[k].Expenses = 0
                          /\ ms[k].Income = 0
                          /\ ms[k].Net = 0

\* two periods, one selected and with transactions, the other not selected
C7_Witness ==
    /\ view.computed
    /\ Len(view.period_list) = 2
    /\ selected_periods = {view.period_list[2]}
    /\ view.monthly_summary[1].Net = 0
    /\ view.monthly_summary[2].Net # 0

----------------------------------------------------------------------------
(* Properties of the session *)

IsSaving(s) == Has(s, "saving_mode") /\ s.saving_mode

\* C5: rows are written to the transactions table only by a run in which
\* Confirm Save is pressed in saving mode with a file uploaded and the
\* confirmation text equal to "Confirm"; and saving mode is entered only by
\* pressing Save with a file uploaded.
C5_WriteOnlyOnConfirmedSave ==
    [][ /\ (db' # db)
            => /\ event'.kind = "confirm_save"
               /\ IsSaving(session_state)
               /\ confirm_text = "Confirm"
               /\ uploaded_file.uploaded
               /\ uploaded_file' = uploaded_file
        /\ (~IsSaving(session_state) /\ IsSaving(session_state'))
            => /\ event'.kind = "save"
               /\ uploaded_file'.uploaded ]_vars

\* the upload has been written
C5_Witness ==
    /\ db # <<>>
    /\ event.kind = "confirm_save"
    /\ "Successfully saved" \in view.messages

\* C8: when the write of a confirmed save fails, the session's combined
\* transaction set is what it was before the attempt, and the error is shown
\* instead of the success message.
C8_FailedWriteKeepsSession ==
    [][ ( /\ event'.kind = "confirm_save"
          /\ ~event'.write_ok
          /\ view'.screen = "app"
          /\ IsSaving(session_state)
          /\ confirm_text = "Confirm"
          /\ ~ParsePreview(uploaded_file).is_none )
        => /\ session_state'.combined_df = session_state.combined_df
           /\ db' = db
           /\ "Error saving data" \in view'.messages
           /\ "Successfully saved" \notin view'.messages ]_vars

\* a confirmed save of a parsed upload whose write failed
C8_Witness ==
    /\ event.kind = "confirm_save"
    /\ ~event.write_ok
    /\ view.screen = "app"
    /\ confirm_text = "Confirm"
    /\ ParsePreview(uploaded_file).rows # <<>>
    /\ "Error saving data" \in view.messages

\* C9: after a login attempt that ends in "Login failed" the session holds no
\* user and no user_id entry, and app_ui runs only for a signed-in user.
C9_FailedLoginLeavesNoUser ==
    /\ "Login failed" \in view.messages
         => ~Has(session_state, "user") /\ ~Has(session_state, "user_id")
    /\ view.screen # "auth"
         => Has(session_state, "user") /\ session_state.user # None

\* C10: the working transaction set holds each identical row (date,
\* description, category, amount, user) at most once.
C10_NoRowTwice ==
    view.computed =>
        \A i, j \in DOMAIN view.working_df :
            ( /\ view.working_df[i].Data = view.working_df[j].Data
              /\ view.working_df[i].Operazione = view.working_df[j].Operazione
              /\ view.working_df[i].Categoria = view.working_df[j].Categoria
              /\ view.working_df[i].Importo = view.working_df[j].Importo
              /\ view.working_df[i].user_id = view.working_df[j].user_id )
            => i = j

====
